---- MODULE Spec2Model ----
(***************************************************************************)
(* A model of mzprof: the Source Subscription (collect/subscribe.rs), the  *)
(* multiplexing Collector (collect/mod.rs) and the Aggregator's            *)
(* exclusive-time derivation (aggregate.rs).                               *)
(*                                                                         *)
(* Three specifications share the module's variables; each leaves the      *)
(* other components in their freshly constructed state:                    *)
(*   Spec           the Collector fed by its subscriptions' batches        *)
(*   SubscribeSpec  one Subscribe stream fed by raw rows                   *)
(*   AggregatorSpec the Aggregator folding updates and building the        *)
(*                  "time" column of the profile                           *)
(***************************************************************************)
EXTENDS Integers, Sequences, FiniteSets, Bags, TLC

\* ------------------------------------------------------------------ bounds

\* Update times and cutoffs range over 0..MaxTime, watermarks over
\* 0..MaxTime+1.
MaxTime == 1
\* Total number of batches the feeds deliver to the Collector in one run.
MaxBatches == 2
\* Total number of updates the feeds deliver to the Collector in one run.
MaxUpdates == 2
\* Number of rows one Subscribe is given in one run.
MaxRows == 4
\* Number of batches the Aggregator folds in one run.
MaxFolds == 4
\* Length of an operator address.
MaxDepth == 3
\* Number of feeds of samples (Elapsed, Size) one run is subscribed to.
MaxSampleFeeds == 1
\* Number of calls of StringTable::insert in one run.
MaxInserts == 4
\* Number of calls of ProfileBuilder::add_samples on one builder.
MaxColumns == 2
\* Number of entries of a map given to ProfileBuilder::add_samples.
MaxEntries == 2

Times == 0..MaxTime

Watermarks == 0..(MaxTime + 1)

\* ------------------------------------------------------------ small helpers

Range(s) == {s[i] : i \in DOMAIN s}

Min(S) == CHOOSE x \in S : \A y \in S : x <= y

Max(S) == CHOOSE x \in S : \A y \in S : x >= y

\* Sequences over S of length at most n.
SeqsUpTo(S, n) == UNION {[1..k -> S] : k \in 0..n}

\* The multiset of a sequence's elements, as a function element -> count.
BagOfSeq(s) == [x \in Range(s) |-> Cardinality({i \in DOMAIN s : s[i] = x})]

RECURSIVE Concat(_)
\* The concatenation of a sequence of sequences.
Concat(ss) == IF ss = <<>> THEN <<>> ELSE Head(ss) \o Concat(Tail(ss))

\* The value Option::None.
None == "None"

\* ------------------------------------------------------------------- state

VARIABLES
    \* Collector (collect/mod.rs)
    status,     \* "setup" before into_stream, "running" while the merged
                \* stream is live, "failed" once it yielded Err and ended,
                \* "ended" once it ended cleanly
    stream,     \* Collector.stream: the ids held by the StreamMap
    progress,   \* Collector.progress: id -> last watermark
    stash,      \* Collector.stash: update time -> updates (a BTreeMap)
    output,     \* the batches the merged stream has yielded so far
    feedUpTo,   \* per subscribed feed, Subscribe.up_to of its subscription
    feedDone,   \* the feeds whose Subscribe has set its stream to None
    watermark,  \* history: per feed, the time of the last batch it delivered
    absorbed,   \* history: the bag of the updates absorbed so far
    nBatches,   \* history: the number of batches absorbed so far
    errorSeen,  \* history: some feed delivered an error item
    delivered   \* history: per feed, the batches it delivered; recorded by
                \* HistorySpec only (empty otherwise)

VARIABLES
    \* Subscribe (collect/subscribe.rs)
    mode,       \* Subscribe.mode
    subStream,  \* Subscribe.stream: "Some" or "None"
    subStash,   \* Subscribe.stash: the pending updates
    upTo,       \* Subscribe.up_to: <<>> for None, <<t>> for Some(t)
    rowFeed,    \* the row stream under Subscribe.stream: "open", or "done"
                \* once it has yielded an error or ended
    panicked,   \* an assert! or unwrap of the Subscribe has failed
    lastPoll,   \* what the last item of poll_next was: "batch", "err",
                \* "end", or "none" while nothing has been yielded
    emitted,    \* the batches poll_next has yielded so far
    rows        \* history: the rows absorb_row has been given

collectorVars ==
    <<status, stream, progress, stash, output, feedUpTo, feedDone, watermark,
      absorbed, nBatches, errorSeen, delivered>>

VARIABLES
    \* Aggregator (aggregate.rs)
    start,      \* Aggregator.start: <<>> for None, <<t>> for Some(t)
    operators,  \* Aggregator.operators: id -> OpInfo
    elapsed,    \* Aggregator.elapsed: <<id, worker>> -> nanoseconds
    sizes,      \* Aggregator.sizes: <<id, worker>> -> bytes
    profile,    \* what build_pprof returned: <<>> while it has not run
    nFolds,     \* history: the number of batches folded so far
    aggFeeds,   \* the feeds the merged stream was subscribed to
    seen        \* history: the bag of the samples folded so far

subscribeVars ==
    <<mode, subStream, subStash, upTo, rowFeed, panicked, lastPoll, emitted,
      rows>>

aggregatorVars ==
    <<start, operators, elapsed, sizes, profile, nFolds, aggFeeds, seen>>

VARIABLES
    \* StringTable (pprof/mod.rs)
    table,      \* StringTable.0: string -> index
    inserted,   \* history: the calls of insert, as (s, idx, len after)
    finished    \* what finish returned: <<>> while it has not run

stringVars == <<table, inserted, finished>>

VARIABLES
    \* ProfileBuilder (aggregate.rs)
    builder,    \* the ProfileBuilder
    columns,    \* history: the maps given to add_samples, in order
    built       \* what build returned: <<>> while it has not run

builderVars == <<builder, columns, built>>

pprofVars == <<stringVars, builderVars>>

vars == <<collectorVars, subscribeVars, aggregatorVars, pprofVars>>

\* --------------------------------------------------------------- Collector

\* The TypeIds of the three subscribe::Spec implementations.
Feeds == {"Operator", "Elapsed", "Size"}

\* An Update of feed f at time t (the Collector never reads data or diff).
MkUpdate(f, t) == [data |-> f, time |-> t]

MkBatch(t, us) == [time |-> t, updates |-> us]

StashPush_Overwrite(s, u) ==
    [k \in DOMAIN s \cup {u.time} |-> IF k = u.time THEN <<u>> ELSE s[k]]

\* BTreeMap::entry(k).or_default().push(u)
StashPush(s, u) ==
    IF u.time \in DOMAIN s
    THEN [s EXCEPT ![u.time] = Append(@, u)]
    ELSE [k \in DOMAIN s \cup {u.time} |-> IF k = u.time THEN <<u>> ELSE s[k]]

RECURSIVE StashAll(_, _)
\* The loop `for update in batch.updates`.
StashAll(s, us) ==
    IF us = <<>> THEN s ELSE StashAll(StashPush(s, Head(us)), Tail(us))

\* BTreeMap::pop_first, the map that is left.
PopFirst(s) == [k \in DOMAIN s \ {Min(DOMAIN s)} |-> s[k]]

Frontier_Max(p) ==
    IF DOMAIN p = {} THEN None ELSE Max({p[f] : f \in DOMAIN p})

\* Collector::frontier
Frontier(p) ==
    IF DOMAIN p = {} THEN None ELSE Min({p[f] : f \in DOMAIN p})

RECURSIVE Drain_Inclusive(_, _, _)
Drain_Inclusive(s, frontier, batches) ==
    IF DOMAIN s # {} /\ Min(DOMAIN s) <= frontier
    THEN LET time == Min(DOMAIN s)
         IN  Drain_Inclusive(PopFirst(s), frontier,
                             Append(batches, MkBatch(time, s[time])))
    ELSE [stash |-> s, batches |-> batches]

RECURSIVE Drain(_, _, _)
\* The release loop of absorb_batch: pop buckets while the first key is
\* below the frontier.
Drain(s, frontier, batches) ==
    IF DOMAIN s # {} /\ Min(DOMAIN s) < frontier
    THEN LET time == Min(DOMAIN s)
         IN  Drain(PopFirst(s), frontier,
                   Append(batches, MkBatch(time, s[time])))
    ELSE [stash |-> s, batches |-> batches]

\* BTreeMap::insert on progress.
ProgressInsert(p, id, t) ==
    [f \in DOMAIN p \cup {id} |-> IF f = id THEN t ELSE p[f]]

RECURSIVE StashAll_ByBatchTime(_, _, _)
StashAll_ByBatchTime(s, us, t) ==
    IF us = <<>> THEN s
    ELSE StashAll_ByBatchTime(
             IF t \in DOMAIN s
             THEN [s EXCEPT ![t] = Append(@, Head(us))]
             ELSE [k \in DOMAIN s \cup {t} |->
                      IF k = t THEN <<Head(us)>> ELSE s[k]],
             Tail(us), t)

AbsorbBatch_ByBatchTime(p, s, id, batch) ==
    LET p1 == ProgressInsert(p, id, batch.time)
        s1 == StashAll_ByBatchTime(s, batch.updates, batch.time)
        d  == Drain(s1, Frontier(p1), <<>>)
    IN  [progress |-> p1, stash |-> d.stash, batches |-> d.batches]

\* Collector::absorb_batch: the new progress and stash and the batches
\* that are ready.
AbsorbBatch(p, s, id, batch) ==
    LET p1 == ProgressInsert(p, id, batch.time)
        s1 == StashAll(s, batch.updates)
        d  == Drain(s1, Frontier(p1), <<>>)
    IN  [progress |-> p1, stash |-> d.stash, batches |-> d.batches]

\* Collector::new
CollectorInit ==
    /\ status = "setup"
    /\ stream = {}
    /\ progress = <<>>
    /\ stash = <<>>
    /\ output = <<>>
    /\ feedUpTo = <<>>
    /\ feedDone = {}
    /\ watermark = [f \in Feeds |-> 0]
    /\ absorbed = EmptyBag
    /\ nBatches = 0
    /\ errorSeen = FALSE

\* Collector::subscribe, and the first row of the new Subscribe, which
\* fixes its cutoff up_to and yields nothing.
Subscribe(f) ==
    /\ status = "setup"
    /\ f \notin stream
    /\ \E u \in Times : feedUpTo' = ProgressInsert(feedUpTo, f, u)
    /\ stream' = stream \cup {f}
    /\ progress' = ProgressInsert(progress, f, 0)
    /\ UNCHANGED <<status, stash, output, feedDone, watermark, absorbed,
                   nBatches, errorSeen, delivered>>
    /\ UNCHANGED <<subscribeVars, aggregatorVars, pprofVars>>

\* Collector::into_stream
IntoStream ==
    /\ status = "setup"
    /\ status' = "running"
    /\ UNCHANGED <<stream, progress, stash, output, feedUpTo, feedDone,
                   watermark, absorbed, nBatches, errorSeen, delivered>>
    /\ UNCHANGED <<subscribeVars, aggregatorVars, pprofVars>>

\* The batches the Subscribe of feed f can yield next.  The remote feed
\* keeps its progress times non-decreasing and sends no data row before
\* its last progress time; Subscribe::absorb_row keeps no data row later
\* than up_to.
FeedBatches(f) ==
    {MkBatch(t, us) :
        t \in {w \in Watermarks : w >= watermark[f]},
        us \in SeqsUpTo({MkUpdate(f, ut) : ut \in watermark[f]..feedUpTo[f]},
                        MaxUpdates - BagCardinality(absorbed))}

\* One turn of the loop of into_stream in which feed f yields a batch.
\* A batch whose time is above up_to is the last one of its Subscribe.
FeedBatch(f) ==
    /\ status = "running"
    /\ f \in stream \ feedDone
    /\ nBatches < MaxBatches
    /\ \E batch \in FeedBatches(f) :
          LET r == AbsorbBatch(progress, stash, f, batch)
          IN  /\ progress' = r.progress
              /\ stash' = r.stash
              /\ output' = output \o r.batches
              /\ feedDone' = IF batch.time > feedUpTo[f]
                             THEN feedDone \cup {f} ELSE feedDone
              /\ watermark' = [watermark EXCEPT ![f] = batch.time]
              /\ absorbed' = absorbed (+) BagOfSeq(batch.updates)
              /\ delivered' = IF DOMAIN delivered = {} THEN delivered
                              ELSE [delivered EXCEPT ![f] = Append(@, batch)]
    /\ nBatches' = nBatches + 1
    /\ UNCHANGED <<status, stream, feedUpTo, errorSeen>>
    /\ UNCHANGED <<subscribeVars, aggregatorVars, pprofVars>>

FeedClose_KeepProgress(f) ==
    /\ status = "running"
    /\ f \in stream \cap feedDone
    /\ stream' = stream \ {f}
    /\ UNCHANGED <<status, progress, stash, output, feedUpTo, feedDone,
                   watermark, absorbed, nBatches, errorSeen, delivered>>
    /\ UNCHANGED <<subscribeVars, aggregatorVars, pprofVars>>

\* One turn of the loop in which the StreamNotifyClose of feed f reports
\* that its Subscribe has ended.
FeedClose(f) ==
    /\ status = "running"
    /\ f \in stream \cap feedDone
    /\ stream' = stream \ {f}
    /\ progress' = [g \in DOMAIN progress \ {f} |-> progress[g]]
    /\ UNCHANGED <<status, stash, output, feedUpTo, feedDone, watermark,
                   absorbed, nBatches, errorSeen, delivered>>
    /\ UNCHANGED <<subscribeVars, aggregatorVars, pprofVars>>

FeedError_Swallowed(f) ==
    /\ status = "running"
    /\ f \in stream \ feedDone
    /\ errorSeen' = TRUE
    /\ UNCHANGED <<status, stream, progress, stash, output, feedUpTo,
                   feedDone, watermark, absorbed, nBatches, delivered>>
    /\ UNCHANGED <<subscribeVars, aggregatorVars, pprofVars>>

\* One turn of the loop in which feed f yields an error: `result?` makes
\* the merged stream yield the error and end.
FeedError(f) ==
    /\ status = "running"
    /\ f \in stream \ feedDone
    /\ status' = "failed"
    /\ errorSeen' = TRUE
    /\ UNCHANGED <<stream, progress, stash, output, feedUpTo, feedDone,
                   watermark, absorbed, nBatches, delivered>>
    /\ UNCHANGED <<subscribeVars, aggregatorVars, pprofVars>>

\* StreamMap::next returns None once no stream is left: the loop and the
\* merged stream end.
StreamEnd ==
    /\ status = "running"
    /\ stream = {}
    /\ status' = "ended"
    /\ UNCHANGED <<stream, progress, stash, output, feedUpTo, feedDone,
                   watermark, absorbed, nBatches, errorSeen, delivered>>
    /\ UNCHANGED <<subscribeVars, aggregatorVars, pprofVars>>

CollectorNext ==
    \/ \E f \in Feeds : Subscribe(f)
    \/ IntoStream
    \/ \E f \in Feeds : FeedBatch(f)
    \/ \E f \in Feeds : FeedClose(f)
    \/ \E f \in Feeds : FeedError(f)
    \/ StreamEnd

\* --------------------------------------------------------------- Subscribe

\* Duration::MAX, the cutoff of Continual { duration: None }.
DurationMax == 2147483647

\* subscribe::Mode; `bounded` tells Some from None in `duration`.
ModeSnapshot == [kind |-> "Snapshot", bounded |-> FALSE, duration |-> 0]

ModeContinual(bounded, d) ==
    [kind |-> "Continual", bounded |-> bounded, duration |-> d]

Modes ==
    {ModeSnapshot, ModeContinual(FALSE, 0)}
        \cup {ModeContinual(TRUE, d) : d \in 1..MaxTime}

\* A row of the feed: mz_progressed, mz_timestamp, and what fails when it
\* is read: nothing ("none"), get_mz_timestamp ("timestamp") or
\* Spec::parse ("payload").
MkRow(p, t, fault) == [progress |-> p, time |-> t, fault |-> fault]

RowInputs ==
    {MkRow(p, t, "none") : p \in BOOLEAN, t \in Watermarks}
        \cup {MkRow(FALSE, t, "payload") : t \in Watermarks}
        \cup {MkRow(FALSE, 0, "timestamp")}

\* Spec::parse_update of the n-th row: its payload (told apart by n) and
\* its timestamp.
ParseUpdate(row, n) == [data |-> n, time |-> row.time]

InitialUpTo_NoDuration(m, time) ==
    IF m.kind = "Snapshot" THEN time
    ELSE IF m.bounded THEN time ELSE DurationMax

\* The cutoff fixed by the first row, at time `time`.
InitialUpTo(m, time) ==
    IF m.kind = "Snapshot" THEN time
    ELSE IF m.bounded THEN time + m.duration ELSE DurationMax

NoBatch == MkBatch(0, <<>>)

AbsorbRow_KeepsLate(sub, row, n) ==
    IF row.fault = "timestamp"
    THEN [sub |-> sub, kind |-> "Err", batch |-> NoBatch]
    ELSE IF sub.up_to = <<>>
    THEN IF ~row.progress
         THEN [sub |-> sub, kind |-> "Panic", batch |-> NoBatch]
         ELSE [sub |-> [sub EXCEPT !.up_to = <<InitialUpTo(sub.mode, row.time)>>],
               kind |-> "None", batch |-> NoBatch]
    ELSE IF row.progress
    THEN [sub |-> [sub EXCEPT !.stream = IF row.time > sub.up_to[1]
                                          THEN "None" ELSE @,
                              !.stash = <<>>],
          kind |-> "Batch", batch |-> MkBatch(row.time, sub.stash)]
    ELSE IF row.fault = "payload"
         THEN [sub |-> sub, kind |-> "Err", batch |-> NoBatch]
         ELSE [sub |-> [sub EXCEPT !.stash = Append(@, ParseUpdate(row, n))],
               kind |-> "None", batch |-> NoBatch]

AbsorbRow_FinishAtUpTo(sub, row, n) ==
    IF row.fault = "timestamp"
    THEN [sub |-> sub, kind |-> "Err", batch |-> NoBatch]
    ELSE IF sub.up_to = <<>>
    THEN IF ~row.progress
         THEN [sub |-> sub, kind |-> "Panic", batch |-> NoBatch]
         ELSE [sub |-> [sub EXCEPT !.up_to = <<InitialUpTo(sub.mode, row.time)>>],
               kind |-> "None", batch |-> NoBatch]
    ELSE IF row.progress
    THEN [sub |-> [sub EXCEPT !.stream = IF row.time >= sub.up_to[1]
                                          THEN "None" ELSE @,
                              !.stash = <<>>],
          kind |-> "Batch", batch |-> MkBatch(row.time, sub.stash)]
    ELSE IF row.time <= sub.up_to[1]
    THEN IF row.fault = "payload"
         THEN [sub |-> sub, kind |-> "Err", batch |-> NoBatch]
         ELSE [sub |-> [sub EXCEPT !.stash = Append(@, ParseUpdate(row, n))],
               kind |-> "None", batch |-> NoBatch]
    ELSE [sub |-> sub, kind |-> "None", batch |-> NoBatch]

\* Subscribe::absorb_row on the n-th row: the Subscribe it leaves and its
\* result: "Panic" (the assert! failed), "Err", "None" for Ok(None), or
\* "Batch" with the batch for Ok(Some(batch)).
AbsorbRow(sub, row, n) ==
    IF row.fault = "timestamp"
    THEN [sub |-> sub, kind |-> "Err", batch |-> NoBatch]
    ELSE IF sub.up_to = <<>>
    THEN IF ~row.progress
         THEN [sub |-> sub, kind |-> "Panic", batch |-> NoBatch]
         ELSE [sub |-> [sub EXCEPT !.up_to = <<InitialUpTo(sub.mode, row.time)>>],
               kind |-> "None", batch |-> NoBatch]
    ELSE IF row.progress
    THEN [sub |-> [sub EXCEPT !.stream = IF row.time > sub.up_to[1]
                                          THEN "None" ELSE @,
                              !.stash = <<>>],
          kind |-> "Batch", batch |-> MkBatch(row.time, sub.stash)]
    ELSE IF row.time <= sub.up_to[1]
    THEN IF row.fault = "payload"
         THEN [sub |-> sub, kind |-> "Err", batch |-> NoBatch]
         ELSE [sub |-> [sub EXCEPT !.stash = Append(@, ParseUpdate(row, n))],
               kind |-> "None", batch |-> NoBatch]
    ELSE [sub |-> sub, kind |-> "None", batch |-> NoBatch]

\* Subscribe::start with mode m.
SubscribeStart(m) ==
    /\ mode = m
    /\ subStream = "Some"
    /\ subStash = <<>>
    /\ upTo = <<>>
    /\ rowFeed = "open"
    /\ panicked = FALSE
    /\ lastPoll = "none"
    /\ emitted = <<>>
    /\ rows = <<>>

\* One turn of the loop of poll_next in which the row stream yields a row.
PollRow ==
    /\ ~panicked
    /\ subStream = "Some"
    /\ rowFeed = "open"
    /\ Len(rows) < MaxRows
    /\ \E row \in RowInputs :
          LET r == AbsorbRow([stream |-> subStream, mode |-> mode,
                              stash |-> subStash, up_to |-> upTo],
                             row, Len(rows) + 1)
          IN  /\ rows' = Append(rows, row)
              /\ panicked' = (r.kind = "Panic")
              /\ subStream' = r.sub.stream
              /\ subStash' = r.sub.stash
              /\ upTo' = r.sub.up_to
              /\ emitted' = IF r.kind = "Batch"
                            THEN Append(emitted, r.batch) ELSE emitted
              /\ lastPoll' = CASE r.kind = "Batch" -> "batch"
                               [] r.kind = "Err" -> "err"
                               [] OTHER -> lastPoll
    /\ UNCHANGED <<mode, rowFeed>>
    /\ UNCHANGED <<collectorVars, aggregatorVars, pprofVars>>

\* One turn of the loop in which the row stream yields an error: the
\* error is yielded, and the row stream has ended.
PollRowError ==
    /\ ~panicked
    /\ subStream = "Some"
    /\ rowFeed = "open"
    /\ rowFeed' = "done"
    /\ lastPoll' = "err"
    /\ UNCHANGED <<mode, subStream, subStash, upTo, panicked, emitted, rows>>
    /\ UNCHANGED <<collectorVars, aggregatorVars, pprofVars>>

\* One turn of the loop in which the row stream yields None, because the
\* query has ended or because the row stream was polled again after its
\* error: the unwrap fails.
PollRowEnd ==
    /\ ~panicked
    /\ subStream = "Some"
    /\ rowFeed' = "done"
    /\ panicked' = TRUE
    /\ UNCHANGED <<mode, subStream, subStash, upTo, lastPoll, emitted, rows>>
    /\ UNCHANGED <<collectorVars, aggregatorVars, pprofVars>>

\* poll_next once Subscribe.stream is None: the end of the stream.
PollFinished ==
    /\ ~panicked
    /\ subStream = "None"
    /\ lastPoll' = "end"
    /\ UNCHANGED <<mode, subStream, subStash, upTo, rowFeed, panicked,
                   emitted, rows>>
    /\ UNCHANGED <<collectorVars, aggregatorVars, pprofVars>>

SubscribeNext ==
    \/ PollRow
    \/ PollRowError
    \/ PollRowEnd
    \/ PollFinished

\* ------------------------------------------------------------- StringTable

\* The strings given to insert.
Strings == {"", "a", "b", "c"}

\* StringTable::new: element 0 is the empty string.
StringTableNew == [s \in {""} |-> 0]

StringInsert_NoDedup(tbl, s) ==
    [table |-> [x \in DOMAIN tbl \cup {s} |->
                   IF x = s THEN Cardinality(DOMAIN tbl) ELSE tbl[x]],
     idx |-> Cardinality(DOMAIN tbl)]

\* StringTable::insert: the table after the call and the index returned.
StringInsert(tbl, s) ==
    IF s \in DOMAIN tbl
    THEN [table |-> tbl, idx |-> tbl[s]]
    ELSE [table |-> [x \in DOMAIN tbl \cup {s} |->
                        IF x = s THEN Cardinality(DOMAIN tbl) ELSE tbl[x]],
          idx |-> Cardinality(DOMAIN tbl)]

RECURSIVE SortByIdx(_, _)
\* The strings S of the table in the order of their indexes.
SortByIdx(tbl, S) ==
    IF S = {} THEN <<>>
    ELSE LET s == CHOOSE x \in S : \A y \in S : tbl[x] <= tbl[y]
         IN  <<s>> \o SortByIdx(tbl, S \ {s})

\* StringTable::finish
StringFinish(tbl) == SortByIdx(tbl, DOMAIN tbl)

StringTableInit ==
    /\ table = StringTableNew
    /\ inserted = <<>>
    /\ finished = <<>>

\* StringTable::insert
Insert(s) ==
    /\ finished = <<>>
    /\ Len(inserted) < MaxInserts
    /\ LET r == StringInsert(table, s)
       IN  /\ table' = r.table
           /\ inserted' = Append(inserted,
                  [s |-> s, idx |-> r.idx, len |-> Cardinality(DOMAIN r.table)])
    /\ UNCHANGED finished
    /\ UNCHANGED <<collectorVars, subscribeVars, aggregatorVars, builderVars>>

\* StringTable::finish, which consumes the table.
Finish ==
    /\ finished = <<>>
    /\ finished' = <<StringFinish(table)>>
    /\ UNCHANGED <<table, inserted>>
    /\ UNCHANGED <<collectorVars, subscribeVars, aggregatorVars, builderVars>>

StringTableNext ==
    \/ \E s \in Strings : Insert(s)
    \/ Finish

\* -------------------------------------------------------------- Aggregator

OpIds == {1, 2, 3}

WorkerIds == {0, 1}

\* The indexes an address is made of: the operators of the model are
\* nested in one another, and siblings are operators of one address.
AddressIndexes == {0}

\* types::Address: a non-empty sequence of indexes.
Addresses == UNION {[1..n -> AddressIndexes] : n \in 1..MaxDepth}

OpNames == {"a"}

\* The mz_diff of an operator row, of an elapsed row (nanoseconds) and of a
\* size row (bytes).
OperatorDiffs == {1, -1}

ElapsedDiffs == {-50, 30, 100}

SizeDiffs == {-200, 1024}

SampleDiffs(kind) == IF kind = "Elapsed" THEN ElapsedDiffs ELSE SizeDiffs

\* i64::MIN and i64::MAX, on the scale of the model's nanoseconds.
I64Min == -2147483647

I64Max == 2147483647

\* Address::ancestors: the proper non-empty prefixes, the longest first.
Ancestors(addr) ==
    [k \in 1..(Len(addr) - 1) |-> SubSeq(addr, 1, Len(addr) - k)]

\* Address::parent: <<>> for None, <<p>> for Some(p).
Parent(addr) ==
    IF Ancestors(addr) = <<>> THEN <<>> ELSE <<Head(Ancestors(addr))>>

\* The sets of feeds a caller subscribes the Collector to: the Operator
\* feed and at most MaxSampleFeeds of the feeds of samples.
AggFeedSets ==
    {{"Operator"} \cup F :
        F \in {G \in SUBSET {"Elapsed", "Size"} : Cardinality(G) <= MaxSampleFeeds}}

\* The updates a batch of the Collector can hold for the Aggregator, the
\* Collector being subscribed to the feeds F.
AggUpdates(F, t) ==
    {[data |-> [kind |-> "Operator", id |-> id, worker |-> 0,
                info |-> [name |-> n, address |-> a]],
      time |-> t, diff |-> d] :
        id \in OpIds, n \in OpNames, a \in Addresses, d \in OperatorDiffs}
    \cup
    UNION {{[data |-> [kind |-> k, id |-> id, worker |-> w,
                       info |-> [name |-> "", address |-> <<>>]],
             time |-> t, diff |-> d] :
               id \in OpIds, w \in WorkerIds, d \in SampleDiffs(k)} :
           k \in F \ {"Operator"}}

\* An Operator update that adds operator id at address a.
OperatorUpdate(id, a, t) ==
    [data |-> [kind |-> "Operator", id |-> id, worker |-> 0,
               info |-> [name |-> CHOOSE n \in OpNames : TRUE, address |-> a]],
     time |-> t, diff |-> 1]

\* The ids of S in ascending order.
RECURSIVE Ascending(_)
Ascending(S) ==
    IF S = {} THEN <<>> ELSE <<Min(S)>> \o Ascending(S \ {Min(S)})

\* The batches the merged stream can yield at time t, the bucket of the
\* updates at time t: one update of any feed, or the snapshot of the
\* Operator feed, which adds several operators at one time.
AggBatches(F, t) ==
    {MkBatch(t, <<u>>) : u \in AggUpdates(F, t)}
    \cup
    UNION {{MkBatch(t, [i \in 1..Cardinality(S) |->
                          OperatorUpdate(Ascending(S)[i], dir[Ascending(S)[i]], t)]) :
               dir \in [S -> Addresses]} :
           S \in (SUBSET OpIds) \ {{}}}

\* BTreeMap::insert.
MapInsert(m, k, v) == [x \in DOMAIN m \cup {k} |-> IF x = k THEN v ELSE m[x]]

\* BTreeMap::entry(k).and_modify(|x| *x += v).or_insert(v)
MapAdd(m, k, v) == MapInsert(m, k, IF k \in DOMAIN m THEN m[k] + v ELSE v)

\* Aggregator::update_operator
UpdateOperator(agg, id, info, diff) ==
    IF diff > 0
    THEN [agg EXCEPT !.operators = MapInsert(@, id, info)]
    ELSE agg

UpdateElapsed_Signed(agg, id, worker, diff) ==
    [agg EXCEPT !.elapsed = MapAdd(@, <<id, worker>>, diff)]

\* Aggregator::update_elapsed
UpdateElapsed(agg, id, worker, diff) ==
    IF diff >= 0
    THEN [agg EXCEPT !.elapsed = MapAdd(@, <<id, worker>>, diff)]
    ELSE agg

UpdateSize_Monotone(agg, id, worker, diff) ==
    IF diff >= 0
    THEN [agg EXCEPT !.sizes = MapAdd(@, <<id, worker>>, diff)]
    ELSE agg

\* Aggregator::update_size
UpdateSize(agg, id, worker, diff) ==
    [agg EXCEPT !.sizes = MapAdd(@, <<id, worker>>, diff)]

RECURSIVE FoldUpdates(_, _)
\* The loop of Aggregator::update over batch.updates.
FoldUpdates(agg, updates) ==
    IF updates = <<>> THEN agg
    ELSE LET u == Head(updates)
             next ==
                 CASE u.data.kind = "Operator" ->
                        UpdateOperator(agg, u.data.id, u.data.info, u.diff)
                   [] u.data.kind = "Elapsed" ->
                        UpdateElapsed(agg, u.data.id, u.data.worker, u.diff)
                   [] u.data.kind = "Size" ->
                        UpdateSize(agg, u.data.id, u.data.worker, u.diff)
         IN  FoldUpdates(next, Tail(updates))

\* Aggregator::update
UpdateAggregator(agg, batch) ==
    FoldUpdates([agg EXCEPT !.start = IF @ = <<>> THEN <<batch.time>> ELSE @],
                batch.updates)

\* The map ops_by_address of build_pprof: collected in the order of the
\* ids, so the greatest id of an address is the one kept.
OpsByAddress(ops) ==
    [a \in {ops[id].address : id \in DOMAIN ops} |->
        Max({id \in DOMAIN ops : ops[id].address = a})]

\* i64::saturating_sub
SaturatingSub(a, b) ==
    IF a - b < I64Min THEN I64Min
    ELSE IF a - b > I64Max THEN I64Max ELSE a - b

\* The order of the keys <<id, worker>> of a BTreeMap.
KeyLess(a, b) == a[1] < b[1] \/ (a[1] = b[1] /\ a[2] < b[2])

\* The last key of a non-empty set of keys.
LastKey(keys) == CHOOSE k \in keys : \A j \in keys : j = k \/ KeyLess(j, k)

ParentEntry_AnyWorker(ops, key, ns) ==
    IF key[1] \notin DOMAIN ops \/ Parent(ops[key[1]].address) = <<>>
    THEN <<>>
    ELSE LET addr == Parent(ops[key[1]].address)[1]
         IN  IF addr \notin DOMAIN OpsByAddress(ops) THEN <<>>
             ELSE IF \E w \in WorkerIds : <<OpsByAddress(ops)[addr], w>> \in DOMAIN ns
                  THEN <<<<OpsByAddress(ops)[addr],
                           CHOOSE w \in WorkerIds :
                               <<OpsByAddress(ops)[addr], w>> \in DOMAIN ns>>>>
                  ELSE <<>>

\* The entry of elapsed_ns that the entry `key` of elapsed is subtracted
\* from: that of the operator at the parent address, on the same worker;
\* <<>> for None.
ParentEntry(ops, key, ns) ==
    IF key[1] \notin DOMAIN ops \/ Parent(ops[key[1]].address) = <<>>
    THEN <<>>
    ELSE LET addr == Parent(ops[key[1]].address)[1]
         IN  IF addr \notin DOMAIN OpsByAddress(ops) THEN <<>>
             ELSE IF <<OpsByAddress(ops)[addr], key[2]>> \in DOMAIN ns
                  THEN <<<<OpsByAddress(ops)[addr], key[2]>>>>
                  ELSE <<>>

RECURSIVE MakeExclusive_Grandparent(_, _, _, _)
MakeExclusive_Grandparent(ops, el, keys, ns) ==
    IF keys = {} THEN ns
    ELSE LET key == LastKey(keys)
             parent == ParentEntry(ops, key, ns)
             grand == IF parent = <<>> THEN <<>>
                      ELSE ParentEntry(ops, parent[1], ns)
             ns1 == IF parent = <<>> THEN ns
                    ELSE [ns EXCEPT ![parent[1]] = SaturatingSub(@, el[key])]
         IN  MakeExclusive_Grandparent(ops, el, keys \ {key},
                 IF grand = <<>> THEN ns1
                 ELSE [ns1 EXCEPT ![grand[1]] = SaturatingSub(@, el[key])])

RECURSIVE MakeExclusive(_, _, _, _)
\* The loop of build_pprof over elapsed.iter().rev(): `keys` are the
\* entries still to visit, `ns` is elapsed_ns.
MakeExclusive(ops, el, keys, ns) ==
    IF keys = {} THEN ns
    ELSE LET key == LastKey(keys)
             parent == ParentEntry(ops, key, ns)
         IN  MakeExclusive(ops, el, keys \ {key},
                 IF parent = <<>> THEN ns
                 ELSE [ns EXCEPT ![parent[1]] = SaturatingSub(@, el[key])])

\* ---------------------------------------------------------- ProfileBuilder

\* u64::to_string, for the numbers below 100.
Digit(n) == <<"0", "1", "2", "3", "4", "5", "6", "7", "8", "9">>[n + 1]

WorkerToString(n) ==
    IF n < 10 THEN Digit(n) ELSE Digit(n \div 10) \o Digit(n % 10)

\* ProfileBuilder::new; `panicked` is set once a call has panicked.
BuilderNew ==
    [string_table |-> StringTableNew, locations |-> <<>>, functions |-> <<>>,
     sample_types |-> <<>>, samples |-> <<>>, op_addrs_by_id |-> <<>>,
     op_ids_by_addr |-> <<>>, time |-> <<>>, panicked |-> FALSE]

\* ProfileBuilder::add_string: the builder after the call.
AddString(b, str) ==
    [b EXCEPT !.string_table = StringInsert(@, str).table]

\* The index add_string returns.
StringIdx(b, str) == StringInsert(b.string_table, str).idx

\* ProfileBuilder::set_time
SetTime(b, t) == [b EXCEPT !.time = <<t>>]

AddLocation_FunctionOnly(b, id, name) ==
    [AddString(b, name) EXCEPT
        !.functions = MapInsert(@, id, [id |-> id, name |-> StringIdx(b, name)])]

\* ProfileBuilder::add_location
AddLocation(b, id, name) ==
    [AddString(b, name) EXCEPT
        !.functions = MapInsert(@, id, [id |-> id, name |-> StringIdx(b, name)]),
        !.locations = MapInsert(@, id,
                          [id |-> id, address |-> id, line |-> <<id>>])]

\* ProfileBuilder::add_operator
AddOperator(b, id, info) ==
    [AddLocation(b, id, info.name) EXCEPT
        !.op_addrs_by_id = MapInsert(@, id, info.address),
        !.op_ids_by_addr = MapInsert(@, info.address, id)]

BuildOperatorStack_RootFirst(b, id) ==
    IF id \in DOMAIN b.op_addrs_by_id
    THEN LET anc == Ancestors(b.op_addrs_by_id[id])
         IN  IF \E k \in DOMAIN anc : anc[k] \notin DOMAIN b.op_ids_by_addr
             THEN [b |-> [b EXCEPT !.panicked = TRUE], stack |-> <<id>>]
             ELSE [b |-> b,
                   stack |-> <<id>> \o
                       [k \in DOMAIN anc |->
                           b.op_ids_by_addr[anc[Len(anc) + 1 - k]]]]
    ELSE IF id \notin DOMAIN b.locations
         THEN [b |-> AddLocation(b, id, "<unknown>"), stack |-> <<id>>]
         ELSE [b |-> b, stack |-> <<id>>]

BuildOperatorStack_NoPlaceholder(b, id) ==
    IF id \in DOMAIN b.op_addrs_by_id
    THEN LET anc == Ancestors(b.op_addrs_by_id[id])
         IN  IF \E k \in DOMAIN anc : anc[k] \notin DOMAIN b.op_ids_by_addr
             THEN [b |-> [b EXCEPT !.panicked = TRUE], stack |-> <<id>>]
             ELSE [b |-> b,
                   stack |-> <<id>> \o
                       [k \in DOMAIN anc |-> b.op_ids_by_addr[anc[k]]]]
    ELSE [b |-> b, stack |-> <<id>>]

\* ProfileBuilder::build_operator_stack: the builder after the call and the
\* stack returned.  Indexing op_ids_by_addr with an address it does not
\* hold panics.
BuildOperatorStack(b, id) ==
    IF id \in DOMAIN b.op_addrs_by_id
    THEN LET anc == Ancestors(b.op_addrs_by_id[id])
         IN  IF \E k \in DOMAIN anc : anc[k] \notin DOMAIN b.op_ids_by_addr
             THEN [b |-> [b EXCEPT !.panicked = TRUE], stack |-> <<id>>]
             ELSE [b |-> b,
                   stack |-> <<id>> \o
                       [k \in DOMAIN anc |-> b.op_ids_by_addr[anc[k]]]]
    ELSE IF id \notin DOMAIN b.locations
         THEN [b |-> AddLocation(b, id, "<unknown>"), stack |-> <<id>>]
         ELSE [b |-> b, stack |-> <<id>>]

\* The first key of a non-empty set of keys.
FirstKey(keys) == CHOOSE k \in keys : \A j \in keys : j = k \/ KeyLess(k, j)

\* The sample add_samples inserts for a key it does not hold yet.
NewSample(b, key, stack, len) ==
    [location_id |-> stack,
     value |-> [i \in 1..len |-> 0],
     label |-> [key |-> StringIdx(b, "worker"),
                str |-> StringIdx(AddString(b, "worker"),
                                  WorkerToString(key[2]))]]

RECURSIVE AddSampleEntries(_, _, _)
\* The loop of add_samples over the entries of `samples`, `keys` being the
\* keys still to visit.
AddSampleEntries(b, samples, keys) ==
    IF keys = {} \/ b.panicked THEN b
    ELSE LET key == FirstKey(keys)
             len == Len(b.sample_types)
             r == BuildOperatorStack(b, key[1])
             withSample ==
                 IF key \in DOMAIN b.samples THEN b
                 ELSE [AddString(AddString(r.b, "worker"),
                                 WorkerToString(key[2]))
                          EXCEPT !.samples =
                              MapInsert(@, key,
                                  NewSample(r.b, key, r.stack, len))]
         IN  IF key \notin DOMAIN b.samples /\ r.b.panicked THEN r.b
             ELSE AddSampleEntries(
                      [withSample EXCEPT !.samples[key].value[len] = samples[key]],
                      samples, keys \ {key})

AddSamples_NoPadding(b, type, unit, samples) ==
    IF b.panicked THEN b
    ELSE LET typed == AddString(AddString(b, type), unit)
             sampleType == [type |-> StringIdx(b, type),
                            unit |-> StringIdx(AddString(b, type), unit)]
             pushed == [typed EXCEPT !.sample_types = Append(@, sampleType)]
         IN  AddSampleEntries(pushed, samples, DOMAIN samples)

\* ProfileBuilder::add_samples
AddSamples(b, type, unit, samples) ==
    IF b.panicked THEN b
    ELSE LET typed == AddString(AddString(b, type), unit)
             sampleType == [type |-> StringIdx(b, type),
                            unit |-> StringIdx(AddString(b, type), unit)]
             pushed ==
                 [typed EXCEPT
                     !.sample_types = Append(@, sampleType),
                     !.samples = [k \in DOMAIN @ |->
                                     [@[k] EXCEPT !.value = Append(@, 0)]]]
         IN  AddSampleEntries(pushed, samples, DOMAIN samples)

RECURSIVE IntoValues(_, _)
\* BTreeMap::into_values over the keys S that are numbers.
IntoValues(m, S) ==
    IF S = {} THEN <<>>
    ELSE <<m[Min(S)]>> \o IntoValues(m, S \ {Min(S)})

RECURSIVE IntoValuesByKey(_, _)
\* BTreeMap::into_values over the keys S that are pairs.
IntoValuesByKey(m, S) ==
    IF S = {} THEN <<>>
    ELSE <<m[FirstKey(S)]>> \o IntoValuesByKey(m, S \ {FirstKey(S)})

\* ProfileBuilder::build: the pprof Profile.
BuilderBuild(b) ==
    [time_nanos |-> IF b.time = <<>> THEN 0 ELSE b.time[1],
     function |-> IntoValues(b.functions, DOMAIN b.functions),
     location |-> IntoValues(b.locations, DOMAIN b.locations),
     sample_type |-> b.sample_types,
     sample |-> IntoValuesByKey(b.samples, DOMAIN b.samples),
     string_table |-> StringFinish(b.string_table)]

\* The type and the unit of the k-th column: build_pprof adds "time" and
\* then "size".
ColumnType(k) ==
    IF k = 1 THEN [type |-> "time", unit |-> "nanoseconds"]
    ELSE IF k = 2 THEN [type |-> "size", unit |-> "bytes"]
    ELSE [type |-> "c" \o WorkerToString(k), unit |-> "count"]

\* The value given for a key in the k-th column: no two are equal.
SampleValue(k, key) == 100 * k + 10 * key[1] + key[2]

\* The maps given to add_samples for the k-th column.
SampleMaps(k) ==
    {[key \in K |-> SampleValue(k, key)] :
        K \in {L \in SUBSET (OpIds \X WorkerIds) :
                  Cardinality(L) <= MaxEntries}}

\* ProfileBuilder::new and set_time, as build_pprof calls them once a batch
\* has been folded.
BuilderInit ==
    /\ builder = SetTime(BuilderNew, 1)
    /\ columns = <<>>
    /\ built = <<>>

\* ProfileBuilder::add_operator, called by build_pprof for the operators
\* in the order of their ids, before the columns are added.
DoAddOperator(id, info) ==
    /\ built = <<>>
    /\ columns = <<>>
    /\ \A j \in DOMAIN builder.op_addrs_by_id : j < id
    /\ builder' = AddOperator(builder, id, info)
    /\ UNCHANGED <<columns, built>>
    /\ UNCHANGED <<collectorVars, subscribeVars, aggregatorVars, stringVars>>

\* ProfileBuilder::add_samples
DoAddSamples(samples) ==
    /\ built = <<>>
    /\ ~builder.panicked
    /\ Len(columns) < MaxColumns
    /\ builder' = AddSamples(builder, ColumnType(Len(columns) + 1).type,
                             ColumnType(Len(columns) + 1).unit, samples)
    /\ columns' = Append(columns, samples)
    /\ UNCHANGED built
    /\ UNCHANGED <<collectorVars, subscribeVars, aggregatorVars, stringVars>>

\* ProfileBuilder::build
DoBuild ==
    /\ built = <<>>
    /\ ~builder.panicked
    /\ built' = <<BuilderBuild(builder)>>
    /\ UNCHANGED <<builder, columns>>
    /\ UNCHANGED <<collectorVars, subscribeVars, aggregatorVars, stringVars>>

BuilderNext ==
    \/ \E id \in OpIds, n \in OpNames, a \in Addresses :
          DoAddOperator(id, [name |-> n, address |-> a])
    \/ \E samples \in SampleMaps(Len(columns) + 1) : DoAddSamples(samples)
    \/ DoBuild

\* ProfileBuilder::add_operator, called at any point before build, also
\* after a column has been added, for an operator not added before.
DoAddOperatorAnyOrder(id, info) ==
    /\ built = <<>>
    /\ ~builder.panicked
    /\ id \notin DOMAIN builder.op_addrs_by_id
    /\ builder' = AddOperator(builder, id, info)
    /\ UNCHANGED <<columns, built>>
    /\ UNCHANGED <<collectorVars, subscribeVars, aggregatorVars, stringVars>>

BuilderAnyOrderNext ==
    \/ \E id \in OpIds, n \in OpNames, a \in Addresses :
          DoAddOperatorAnyOrder(id, [name |-> n, address |-> a])
    \/ \E samples \in SampleMaps(Len(columns) + 1) : DoAddSamples(samples)
    \/ DoBuild

RECURSIVE AddOperators(_, _, _)
\* The loop of build_pprof over the operators, `ids` being those still to
\* add.
AddOperators(b, ops, ids) ==
    IF ids = {} THEN b
    ELSE AddOperators(AddOperator(b, Min(ids), ops[Min(ids)]), ops,
                      ids \ {Min(ids)})

\* Aggregator::build_pprof: the time of the profile, the values of its
\* "time" and "size" columns (<<>> for a column that is not added),
\* whether the call panicked, and the Profile it returns if it did not.
BuildPprof(agg) ==
    LET nanos == IF DOMAIN agg.elapsed = {} THEN <<>>
                 ELSE <<MakeExclusive(agg.operators, agg.elapsed,
                                      DOMAIN agg.elapsed, agg.elapsed)>>
        bytes == IF DOMAIN agg.sizes = {} THEN <<>> ELSE <<agg.sizes>>
        timed == IF agg.start = <<>> THEN BuilderNew
                 ELSE SetTime(BuilderNew, agg.start[1])
        named == AddOperators(timed, agg.operators, DOMAIN agg.operators)
        withTime == IF nanos = <<>> THEN named
                    ELSE AddSamples(named, "time", "nanoseconds", nanos[1])
        withSize == IF bytes = <<>> THEN withTime
                    ELSE AddSamples(withTime, "size", "bytes", bytes[1])
    IN  [time  |-> agg.start,
         nanos |-> nanos,
         bytes |-> bytes,
         panicked |-> withSize.panicked,
         pprof |-> IF withSize.panicked THEN <<>>
                   ELSE <<BuilderBuild(withSize)>>]

\* The Aggregator as a record.
Agg ==
    [start |-> start, operators |-> operators, elapsed |-> elapsed,
     sizes |-> sizes]

\* Aggregator::new
AggregatorInit ==
    /\ start = <<>>
    /\ operators = <<>>
    /\ elapsed = <<>>
    /\ sizes = <<>>
    /\ profile = <<>>
    /\ nFolds = 0
    /\ seen = EmptyBag

RECURSIVE SamplesOf(_)
\* The Elapsed and Size updates of a batch, as (kind, id, worker, diff).
SamplesOf(updates) ==
    IF updates = <<>> THEN <<>>
    ELSE LET u == Head(updates)
         IN  (IF u.data.kind = "Operator" THEN <<>>
              ELSE <<[kind |-> u.data.kind, id |-> u.data.id,
                      worker |-> u.data.worker, diff |-> u.diff]>>)
             \o SamplesOf(Tail(updates))

\* Aggregator::update on the next batch of the merged stream.
Update ==
    /\ profile = <<>>
    /\ nFolds < MaxFolds
    /\ \E batch \in AggBatches(aggFeeds, nFolds + 1) :
          LET r == UpdateAggregator(Agg, batch)
          IN  /\ start' = r.start
              /\ operators' = r.operators
              /\ elapsed' = r.elapsed
              /\ sizes' = r.sizes
              /\ seen' = seen (+) BagOfSeq(SamplesOf(batch.updates))
    /\ nFolds' = nFolds + 1
    /\ UNCHANGED <<profile, aggFeeds>>
    /\ UNCHANGED <<collectorVars, subscribeVars, pprofVars>>

\* Aggregator::build_pprof, once the merged stream has ended.
Build ==
    /\ profile = <<>>
    /\ profile' = <<BuildPprof(Agg)>>
    /\ UNCHANGED <<start, operators, elapsed, sizes, nFolds, aggFeeds, seen>>
    /\ UNCHANGED <<collectorVars, subscribeVars, pprofVars>>

AggregatorNext ==
    \/ Update
    \/ Build

\* ---------------------------------------------------------- specifications

CollectorIdle == CollectorInit /\ delivered = <<>>

\* A ProfileBuilder that is not used.
BuilderIdle == builder = <<>> /\ columns = <<>> /\ built = <<>>

\* A StringTable and a ProfileBuilder that are not used.
PprofIdle == StringTableInit /\ BuilderIdle

SubscribeIdle == SubscribeStart(ModeSnapshot)

\* An Aggregator that is given no batch.
AggregatorIdle == AggregatorInit /\ aggFeeds = {}

Init ==
    /\ CollectorInit
    /\ delivered = <<>>
    /\ SubscribeIdle
    /\ AggregatorIdle
    /\ PprofIdle

HistoryInit ==
    /\ CollectorInit
    /\ delivered = [f \in Feeds |-> <<>>]
    /\ SubscribeIdle
    /\ AggregatorIdle
    /\ PprofIdle

Next == CollectorNext

Spec == Init /\ [][Next]_vars

HistorySpec == HistoryInit /\ [][Next]_vars

SubscribeInit ==
    /\ CollectorIdle
    /\ AggregatorIdle
    /\ PprofIdle
    /\ \E m \in Modes : SubscribeStart(m)

SubscribeSpec == SubscribeInit /\ [][SubscribeNext]_vars

AggregatorSpecInit ==
    /\ CollectorIdle
    /\ SubscribeIdle
    /\ AggregatorInit
    /\ aggFeeds \in AggFeedSets
    /\ PprofIdle

AggregatorSpec == AggregatorSpecInit /\ [][AggregatorNext]_vars

StringTableSpecInit ==
    /\ CollectorIdle
    /\ SubscribeIdle
    /\ AggregatorIdle
    /\ StringTableInit
    /\ BuilderIdle

StringTableSpec == StringTableSpecInit /\ [][StringTableNext]_vars

BuilderSpecInit ==
    /\ CollectorIdle
    /\ SubscribeIdle
    /\ AggregatorIdle
    /\ StringTableInit
    /\ BuilderInit

BuilderSpec == BuilderSpecInit /\ [][BuilderNext]_vars

BuilderAnyOrderSpec == BuilderSpecInit /\ [][BuilderAnyOrderNext]_vars

\* ------------------------------------------------- claims on the Collector

\* The feeds that were subscribed and have been closed.
ClosedFeeds == DOMAIN feedUpTo \ stream

\* The positions of the batches a step appends to the output.
Released == (Len(output) + 1)..Len(output')

\* All updates of a sequence of batches, in order.
UpdatesOf(batches) == Concat([i \in DOMAIN batches |-> batches[i].updates])

\* C1: frontier safety.  A batch with time t is released only in a step
\* after which every feed still in `progress` has a recorded watermark
\* above t; a subscribed feed that has delivered nothing stands at
\* watermark 0 and so blocks every release.
C1_FrontierSafety ==
    [][\A i \in Released :
          /\ \A f \in DOMAIN progress' : progress'[f] > output'[i].time
          /\ \A f \in stream' : watermark'[f] > output'[i].time]_vars

C1_Witness ==
    /\ output # <<>>
    /\ stash # <<>>
    /\ Cardinality(DOMAIN progress) >= 2

\* C2: global ordering.  With feeds whose watermarks never decrease and
\* whose updates are never earlier than the feed's previous watermark
\* (FeedBatches yields no other batch), the released batches have
\* strictly increasing times.
C2_GlobalOrdering ==
    \A i, j \in DOMAIN output : i < j => output[i].time < output[j].time

C2_Witness ==
    /\ Len(output) >= 2
    /\ Cardinality(DOMAIN feedUpTo) >= 2

\* C3: no update is lost at the end of a run.  Once the merged stream has
\* ended cleanly the stash is empty and every absorbed update has been
\* released.
C3_NoUpdateLost ==
    status = "ended" =>
        /\ stash = <<>>
        /\ BagOfSeq(UpdatesOf(output)) = absorbed

\* C4: closed-feed frontier exclusion.  Closing a feed removes it from
\* `progress` and leaves the stash and the output alone; once a feed has
\* closed, a batch of an open feed releases exactly the buckets below the
\* least watermark of the feeds still open.
C4_ClosedFeedExcluded ==
    [][/\ stream' # stream /\ status = "running" =>
            /\ DOMAIN progress' = stream'
            /\ stash' = stash
            /\ output' = output
       /\ nBatches' # nBatches /\ ClosedFeeds # {} =>
            LET open == Min({watermark'[f] : f \in stream'})
            IN  /\ \A k \in DOMAIN stash' : k >= open
                /\ \A i \in Released : output'[i].time < open]_vars

\* A bucket was released although its key is not below the last
\* watermark of a feed that has closed.
C4_Witness ==
    \E f \in ClosedFeeds :
        \E i \in DOMAIN output : output[i].time >= watermark[f]

\* The feeds in the order of their TypeIds' names.
FeedOrder == <<"Elapsed", "Operator", "Size">>

RECURSIVE RunFeed(_, _, _)
\* The Collector consuming batches bs of feed f and then its close.
RunFeed(c, f, bs) ==
    IF bs = <<>>
    THEN [c EXCEPT !.progress = [g \in DOMAIN c.progress \ {f} |-> c.progress[g]]]
    ELSE LET r == AbsorbBatch(c.progress, c.stash, f, Head(bs))
         IN  RunFeed([progress |-> r.progress, stash |-> r.stash,
                      output |-> c.output \o r.batches], f, Tail(bs))

RECURSIVE RunFeeds(_, _)
\* The Collector consuming the subscribed feeds fs one after the other.
RunFeeds(c, fs) ==
    IF fs = <<>> THEN c
    ELSE RunFeeds(IF Head(fs) \in DOMAIN feedUpTo
                  THEN RunFeed(c, Head(fs), delivered[Head(fs)])
                  ELSE c,
                  Tail(fs))

\* The output of the run that consumes the feeds one after the other.
SequentialOutput ==
    RunFeeds([progress |-> [f \in DOMAIN feedUpTo |-> 0], stash |-> <<>>,
              output |-> <<>>], FeedOrder).output

\* A released output up to the order of the updates inside a batch.
Canon(batches) ==
    [i \in DOMAIN batches |->
        [time |-> batches[i].time, updates |-> BagOfSeq(batches[i].updates)]]

\* C5: interleaving independence.  Whatever the interleaving in which the
\* feeds were consumed, the run that has ended released the same batch
\* times with the same updates as the run that consumes the same per-feed
\* batches one feed after the other.
C5_InterleavingIndependence ==
    status = "ended" => Canon(output) = Canon(SequentialOutput)

\* C6: error short-circuit.  Once a feed has delivered an error the
\* merged stream has failed and yields no batch: the step of the error
\* releases nothing and no later step adds to the output.
C6_ErrorShortCircuit ==
    [][errorSeen' => status' = "failed" /\ output' = output]_vars

C6_Witness ==
    /\ status = "failed"
    /\ output # <<>>
    /\ stash # <<>>
    /\ Cardinality(stream) >= 2

\* C7 as stated: every update of a released batch, and of the batches
\* released before it, has a time strictly below the batch's time.
C7_UpdatesBelowBatchTime ==
    \A i \in DOMAIN output : \A j \in 1..i :
        \A u \in Range(output[j].updates) : u.time < output[i].time

\* C7 as amended: every update of a released batch has exactly the
\* batch's time, and every update of the batches released before it has a
\* time strictly below the batch's time.
C7_UpdatesAtBatchTime ==
    \A i \in DOMAIN output :
        /\ \A u \in Range(output[i].updates) : u.time = output[i].time
        /\ \A j \in 1..(i - 1) :
              \A u \in Range(output[j].updates) : u.time < output[i].time

\* A batch holding updates of two feeds has been released.
C7_Witness ==
    \E i \in DOMAIN output :
        Cardinality({u.data : u \in Range(output[i].updates)}) >= 2

\* All updates held in the stash, bucket after bucket.
Stashed == Concat([i \in 1..Cardinality(DOMAIN stash) |->
              stash[CHOOSE k \in DOMAIN stash :
                        Cardinality({j \in DOMAIN stash : j <= k}) = i]])

\* C22: conservation in the Collector.  Every update a feed has delivered
\* is in exactly one place: in the stash, in the bucket keyed by its own
\* time, or in one released batch whose time is the update's time; none is
\* duplicated or released twice, and no released batch is empty.
C22_Conservation ==
    /\ \A k \in DOMAIN stash :
          \A i \in DOMAIN stash[k] : stash[k][i].time = k
    /\ \A i \in DOMAIN output :
          /\ output[i].updates # <<>>
          /\ \A j \in DOMAIN output[i].updates :
                output[i].updates[j].time = output[i].time
    /\ BagOfSeq(Stashed) (+) BagOfSeq(UpdatesOf(output)) = absorbed

\* After a feed has closed, one delivered update is still in the stash
\* and another has been released.
C22_Witness ==
    /\ ClosedFeeds # {}
    /\ Stashed # <<>>
    /\ UpdatesOf(output) # <<>>
    /\ BagCardinality(absorbed) >= 2

\* ------------------------------------------------- claims on the Subscribe

\* The rows whose timestamp could be read.
ReadableRows == {i \in DOMAIN rows : rows[i].fault # "timestamp"}

\* The k-th smallest element of a set of numbers.
Kth(S, k) == CHOOSE i \in S : Cardinality({j \in S : j <= i}) = k

\* The updates a batch must hold when the rows after row `prev` and before
\* row `i` were received since the previous progress row: the data rows
\* no later than `cutoff`, parsed, in arrival order.
ExpectedUpdates(prev, i, cutoff) ==
    LET kept == {j \in (prev + 1)..(i - 1) :
                    /\ ~rows[j].progress
                    /\ rows[j].fault = "none"
                    /\ rows[j].time <= cutoff}
    IN  [k \in 1..Cardinality(kept) |->
            [data |-> Kth(kept, k), time |-> rows[Kth(kept, k)].time]]

\* C8: Source Subscription batching.  The first row, a progress row at
\* time origin, yields no batch and fixes up_to (Snapshot: origin;
\* Continual with duration d: origin + d; Continual without duration: the
\* maximum); from then on the batches yielded are, one per progress row
\* and in order, the batch with the row's time and exactly the data rows
\* no later than up_to received since the previous progress row, in
\* arrival order; a progress row leaves the pending list empty.  (A data
\* row whose payload does not parse yields an error and no update.)
C8_Batching ==
    IF ReadableRows = {} \/ ~rows[Min(ReadableRows)].progress
    THEN emitted = <<>> /\ upTo = <<>>
    ELSE LET h == Min(ReadableRows)
             origin == rows[h].time
             cutoff == CASE mode.kind = "Snapshot" -> origin
                         [] mode.kind = "Continual" /\ mode.bounded
                              -> origin + mode.duration
                         [] OTHER -> DurationMax
             P == {i \in DOMAIN rows : i > h /\ rows[i].progress}
             Prev(i) == Max({h} \cup {j \in P : j < i})
         IN  /\ upTo = <<cutoff>>
             /\ emitted =
                  [k \in 1..Cardinality(P) |->
                      MkBatch(rows[Kth(P, k)].time,
                              ExpectedUpdates(Prev(Kth(P, k)), Kth(P, k), cutoff))]
             /\ Len(rows) \in P => subStash = <<>>

\* A batch with an update was yielded although a data row later than
\* up_to had been received.
C8_Witness ==
    /\ upTo # <<>>
    /\ \E i \in DOMAIN emitted : emitted[i].updates # <<>>
    /\ \E i \in DOMAIN rows :
          /\ ~rows[i].progress
          /\ rows[i].fault = "none"
          /\ rows[i].time > upTo[1]
          /\ \E j \in DOMAIN rows : j > i /\ rows[j].progress

\* The state of the Subscribe's state machine.
Phase ==
    IF subStream = "None" THEN "Finished"
    ELSE IF upTo = <<>> THEN "AwaitingHorizon" ELSE "Streaming"

\* C9: Source Subscription termination.  The state machine only moves
\* AwaitingHorizon -> Streaming -> Finished; a progress row at T <= up_to
\* keeps it Streaming, a progress row at T > up_to yields its batch and
\* moves it to Finished; Finished is absorbing: no row is consumed, no
\* batch is yielded and every poll yields the end of the stream, so the
\* batch with a time above up_to is the last one.
C9_Termination ==
    [][/\ <<Phase, Phase'>> \in
            {<<"AwaitingHorizon", "AwaitingHorizon">>,
             <<"AwaitingHorizon", "Streaming">>,
             <<"Streaming", "Streaming">>,
             <<"Streaming", "Finished">>,
             <<"Finished", "Finished">>}
       /\ (/\ Phase = "Streaming"
           /\ rows' # rows
           /\ rows'[Len(rows')].progress) =>
              LET t == rows'[Len(rows')].time
              IN  /\ Phase' = IF t > upTo[1] THEN "Finished" ELSE "Streaming"
                  /\ Len(emitted') = Len(emitted) + 1
                  /\ emitted'[Len(emitted')].time = t
                  /\ lastPoll' = "batch"
       /\ Phase = "Finished" =>
              /\ rows' = rows
              /\ emitted' = emitted
              /\ lastPoll' = "end"
       /\ Phase' = "Finished" =>
              /\ emitted' # <<>>
              /\ \A i \in DOMAIN emitted' :
                    (emitted'[i].time > upTo'[1]) <=> (i = Len(emitted'))]_vars

\* The Subscribe has finished after more than one batch and has been
\* polled again.
C9_Witness ==
    /\ Phase = "Finished"
    /\ Len(emitted) >= 2
    /\ lastPoll = "end"

\* C20: once the Subscribe has yielded an error, it yields no further
\* batch on any later poll, so that the updates pending at the failure
\* appear in no batch.
C20_FailureTerminal ==
    [][lastPoll = "err" => emitted' = emitted]_vars

\* C21: in the mode Continual without a duration no row finishes the
\* Subscribe while the row feed is open, and when the row feed closes
\* (it yields its end, not an error) the Subscribe ends without a panic.
C21_UnboundedContinual ==
    [][mode = ModeContinual(FALSE, 0) =>
          /\ rowFeed' = "open" => subStream' = "Some"
          /\ (rowFeed = "open" /\ rowFeed' = "done" /\ lastPoll' = lastPoll) =>
                 ~panicked']_vars

\* ------------------------------------------------ claims on the Aggregator

\* The operators whose parent address the directory resolves to id: the
\* parent address is that of id, and of no operator of a greater id.
ChildrenOf(id) ==
    {c \in DOMAIN operators :
        /\ Len(operators[c].address) > 1
        /\ id \in DOMAIN operators
        /\ operators[id].address =
               SubSeq(operators[c].address, 1, Len(operators[c].address) - 1)
        /\ \A j \in DOMAIN operators :
               operators[j].address = operators[id].address => j <= id}

RECURSIVE SumOver(_, _)
\* The sum of f over the keys S.
SumOver(f, S) ==
    IF S = {} THEN 0
    ELSE LET k == CHOOSE x \in S : TRUE
         IN  f[k] + SumOver(f, S \ {k})

\* The cumulative values, on worker w, of the children of id.
ChildrenRaw(id, w) ==
    SumOver(elapsed, {<<c, w>> : c \in ChildrenOf(id)} \cap DOMAIN elapsed)

\* The sample of the emitted Profile for a key: `sample` holds the samples
\* in the order of their keys.
EmittedSample(key) ==
    profile[1].pprof[1].sample[
        Cardinality({k \in DOMAIN elapsed \cup DOMAIN sizes :
                        k = key \/ KeyLess(k, key)})]

\* C10: the time column build_pprof emits holds, for every (id, worker) of
\* the cumulative elapsed map, the cumulative value minus the sum of the
\* cumulative values, on the same worker, of the operators whose parent
\* address resolves to id; an operator without children keeps its
\* cumulative value; without elapsed entries there is no time column.
C10_ExclusiveTime ==
    (profile # <<>> /\ ~profile[1].panicked) =>
        IF DOMAIN elapsed = {}
        THEN /\ profile[1].nanos = <<>>
             /\ \A i \in DOMAIN profile[1].pprof[1].sample_type :
                    profile[1].pprof[1].string_table[
                        profile[1].pprof[1].sample_type[i].type + 1] # "time"
        ELSE /\ profile[1].nanos # <<>>
             /\ DOMAIN profile[1].nanos[1] = DOMAIN elapsed
             /\ \A key \in DOMAIN elapsed :
                    /\ profile[1].nanos[1][key] =
                           elapsed[key] - ChildrenRaw(key[1], key[2])
                    /\ EmittedSample(key).value[1] = profile[1].nanos[1][key]

\* A profile was built in which, on one worker, an operator of 100ns has a
\* child of 30ns that has a child of 30ns: the operator is left 70ns, its
\* child 0ns, and the leaf its 30ns.
C10_Witness ==
    /\ profile # <<>>
    /\ ~profile[1].panicked
    /\ \E p \in DOMAIN operators, w \in WorkerIds :
         \E c \in ChildrenOf(p) : \E g \in ChildrenOf(c) :
            /\ {<<p, w>>, <<c, w>>, <<g, w>>} \subseteq DOMAIN elapsed
            /\ elapsed[<<p, w>>] = 100
            /\ elapsed[<<c, w>>] = 30
            /\ elapsed[<<g, w>>] = 30
            /\ profile[1].nanos[1][<<p, w>>] = 70
            /\ profile[1].nanos[1][<<c, w>>] = 0
            /\ profile[1].nanos[1][<<g, w>>] = 30

\* The number of times the sample (kind, id, worker, d) was folded.
TimesSeen(kind, key, d) ==
    CopiesIn([kind |-> kind, id |-> key[1], worker |-> key[2], diff |-> d],
             seen)

RECURSIVE DiffSum(_, _, _)
\* The sum of the diffs of D over the samples (kind, key) folded.
DiffSum(kind, key, D) ==
    IF D = {} THEN 0
    ELSE LET d == CHOOSE x \in D : TRUE
         IN  d * TimesSeen(kind, key, d) + DiffSum(kind, key, D \ {d})

\* The keys of the samples of a kind folded with a diff of D.
KeysSeen(kind, D) ==
    {<<x.id, x.worker>> : x \in {y \in BagToSet(seen) : y.kind = kind /\ y.diff \in D}}

\* C11: after folding any sequence of Elapsed updates, elapsed has an entry
\* for exactly the keys a non-negative diff was seen for, and the entry is
\* the sum of the non-negative diffs seen for the key; negative diffs
\* change nothing.
C11_MonotoneCounter ==
    /\ DOMAIN elapsed = KeysSeen("Elapsed", {d \in ElapsedDiffs : d >= 0})
    /\ \A key \in DOMAIN elapsed :
           elapsed[key] =
               DiffSum("Elapsed", key, {d \in ElapsedDiffs : d >= 0})

\* The diffs +100, -50, +30 were folded for one key, which holds 130ns.
C11_Witness ==
    \E key \in DOMAIN elapsed :
        /\ TimesSeen("Elapsed", key, 100) = 1
        /\ TimesSeen("Elapsed", key, -50) = 1
        /\ TimesSeen("Elapsed", key, 30) = 1
        /\ elapsed[key] = 130

\* C12: after folding any sequence of Size updates, sizes has an entry for
\* exactly the keys a Size update was seen for, and the entry is the signed
\* sum of all the diffs seen for the key, retractions included, whatever
\* the order of the updates.
C12_SignedSize ==
    /\ DOMAIN sizes = KeysSeen("Size", SizeDiffs)
    /\ \A key \in DOMAIN sizes : sizes[key] = DiffSum("Size", key, SizeDiffs)

\* The diffs +1024 (twice) and -200 were folded for one key, which holds
\* 1848, and a key holds a negative size after a retraction alone.
C12_Witness ==
    \E key \in DOMAIN sizes, other \in DOMAIN sizes :
        /\ TimesSeen("Size", key, 1024) = 2
        /\ TimesSeen("Size", key, -200) = 1
        /\ sizes[key] = 1848
        /\ sizes[other] = -200

\* C17: every operator that has a size entry has a directory entry
\* (folding a Size update makes its operator present in the directory).
C17_SizeUpsertsDirectory ==
    \A key \in DOMAIN sizes : key[1] \in DOMAIN operators

\* C18: no value of the time column is negative, and an operator whose
\* children's cumulative values on a worker sum to more than its own has
\* the exclusive value 0 on that worker.
C18_SaturatesAtZero ==
    (profile # <<>> /\ ~profile[1].panicked /\ profile[1].nanos # <<>>) =>
        \A key \in DOMAIN elapsed :
            /\ EmittedSample(key).value[1] >= 0
            /\ ChildrenRaw(key[1], key[2]) > elapsed[key] =>
                   EmittedSample(key).value[1] = 0

\* An elapsed entry is inconsistent with the directory: its operator is
\* missing, or the operator is not a root and no operator has its parent
\* address, or the operator at its parent address has no elapsed entry on
\* the worker.
Inconsistent(key) ==
    \/ key[1] \notin DOMAIN operators
    \/ /\ key[1] \in DOMAIN operators
       /\ Len(operators[key[1]].address) > 1
       /\ \A p \in DOMAIN operators :
              \/ key[1] \notin ChildrenOf(p)
              \/ <<p, key[2]>> \notin DOMAIN elapsed

\* C19: when an elapsed entry is inconsistent with the directory,
\* build_pprof aborts and produces no profile.
C19_ConsistencyFatal ==
    (profile # <<>> /\ \E key \in DOMAIN elapsed : Inconsistent(key)) =>
        /\ profile[1].panicked
        /\ profile[1].pprof = <<>>

\* The elapsed entries, on worker w, of the operators of the directory.
TreeKeys(w) == {k \in DOMAIN elapsed : k[2] = w /\ k[1] \in DOMAIN operators}

\* Those of the operators at a root address.
Roots(w) == {k \in TreeKeys(w) : Len(operators[k[1]].address) = 1}

\* On worker w the operators with an elapsed entry form a tree under one
\* root: every other one has its parent in the directory with an elapsed
\* entry on w, and no operator's cumulative value is below the sum of the
\* cumulative values of its children.
IsTree(w) ==
    /\ Cardinality(Roots(w)) = 1
    /\ \A k \in TreeKeys(w) \ Roots(w) :
          \E p \in DOMAIN operators :
              /\ k[1] \in ChildrenOf(p)
              /\ <<p, w>> \in DOMAIN elapsed
    /\ \A k \in TreeKeys(w) : elapsed[k] >= ChildrenRaw(k[1], w)

\* The sum of the values the emitted time column holds on worker w for
\* the operators of the directory.
ExclusiveSum(w) ==
    SumOver([k \in TreeKeys(w) |-> EmittedSample(k).value[1]], TreeKeys(w))

\* C24: the exclusive times add back up to the root.  When on a worker w
\* the operators with an elapsed entry form a tree (IsTree), the values of
\* the emitted time column on w sum to the cumulative elapsed value of
\* the root on w: a child reduces its parent only, never a grandparent.
C24_ExclusiveSumsToRoot ==
    (profile # <<>> /\ ~profile[1].panicked) =>
        \A w \in WorkerIds :
            IsTree(w) =>
                \A r \in Roots(w) : ExclusiveSum(w) = elapsed[r]

\* A profile was built for a tree three levels deep on one worker, each
\* operator at an address of its own, the one in the middle holding time
\* of its own.
C24_Witness ==
    /\ profile # <<>>
    /\ ~profile[1].panicked
    /\ \E w \in WorkerIds :
          /\ IsTree(w)
          /\ Cardinality(TreeKeys(w)) = 3
          /\ \A j, k \in TreeKeys(w) :
                j # k => operators[j[1]].address # operators[k[1]].address
          /\ \E k \in TreeKeys(w) :
                /\ Len(operators[k[1]].address) = 2
                /\ elapsed[k] > ChildrenRaw(k[1], w)
                /\ ChildrenRaw(k[1], w) > 0

\* ---------------------------------------------- claims on the StringTable

\* The strings of the table before the k-th call of insert.
StringsBefore(k) == {""} \cup {inserted[j].s : j \in 1..(k - 1)}

\* C13: index 0 holds the empty string; inserting a string equal to an
\* earlier one returns the earlier index and adds nothing; a new string
\* gets the next index in insertion order; finish returns a table T
\* without duplicates in which T[insert(s)] = s for every inserted s.
C13_StringTable ==
    /\ "" \in DOMAIN table
    /\ table[""] = 0
    /\ \A k \in DOMAIN inserted :
          IF inserted[k].s \in StringsBefore(k)
          THEN /\ inserted[k].len = Cardinality(StringsBefore(k))
               /\ inserted[k].s = "" => inserted[k].idx = 0
               /\ \A j \in 1..(k - 1) :
                      inserted[j].s = inserted[k].s =>
                          inserted[k].idx = inserted[j].idx
          ELSE /\ inserted[k].len = Cardinality(StringsBefore(k)) + 1
               /\ inserted[k].idx = Cardinality(StringsBefore(k))
    /\ finished # <<>> =>
          /\ Len(finished[1]) = Cardinality(StringsBefore(Len(inserted) + 1))
          /\ finished[1][1] = ""
          /\ \A k \in DOMAIN inserted :
                /\ inserted[k].idx + 1 \in DOMAIN finished[1]
                /\ finished[1][inserted[k].idx + 1] = inserted[k].s
          /\ \A i \in DOMAIN finished[1], j \in DOMAIN finished[1] :
                finished[1][i] = finished[1][j] => i = j

\* "a", "b", "a" were inserted, which returned 1, 2, 1, and finish gave
\* ["", "a", "b"].
C13_Witness ==
    /\ Len(inserted) = 3
    /\ <<inserted[1].s, inserted[2].s, inserted[3].s>> = <<"a", "b", "a">>
    /\ <<inserted[1].idx, inserted[2].idx, inserted[3].idx>> = <<1, 2, 1>>
    /\ finished = <<(<<"", "a", "b">>)>>

\* ------------------------------------------- claims on the ProfileBuilder

\* C14: after any sequence of add_samples calls, there is one sample type
\* per call, every sample's value vector has one slot per sample type,
\* slot k holds the value the k-th call gave for the sample's key and 0
\* when it gave none, also after later calls; the built Profile holds
\* these vectors.
C14_ColumnAlignment ==
    ~builder.panicked =>
        /\ Len(builder.sample_types) = Len(columns)
        /\ DOMAIN builder.samples = UNION {DOMAIN columns[k] : k \in DOMAIN columns}
        /\ \A key \in DOMAIN builder.samples :
              /\ Len(builder.samples[key].value) = Len(columns)
              /\ \A k \in DOMAIN columns :
                    builder.samples[key].value[k] =
                        IF key \in DOMAIN columns[k] THEN columns[k][key] ELSE 0
        /\ built # <<>> =>
              /\ Len(built[1].sample_type) = Len(columns)
              /\ Len(built[1].sample) = Cardinality(DOMAIN builder.samples)
              /\ \A key \in DOMAIN builder.samples :
                    \E i \in DOMAIN built[1].sample :
                        built[1].sample[i] = builder.samples[key]

\* A "time" column with operators 1 and 2 and then a "size" column with
\* operator 1 only were added: operator 2 has [time, 0] and operator 1 has
\* [time, size] in the built Profile.
C14_Witness ==
    /\ built # <<>>
    /\ Len(columns) = 2
    /\ DOMAIN columns[1] = {<<1, 0>>, <<2, 0>>}
    /\ DOMAIN columns[2] = {<<1, 0>>}
    /\ built[1].sample[1].value = <<columns[1][<<1, 0>>], columns[2][<<1, 0>>]>>
    /\ built[1].sample[2].value = <<columns[1][<<2, 0>>], 0>>

\* The operators the directory of the builder holds at an address.
OperatorsAt(addr) ==
    {j \in DOMAIN builder.op_addrs_by_id : builder.op_addrs_by_id[j] = addr}

\* The proper non-empty prefix of length n of an address.
Prefix(addr, n) == [i \in 1..n |-> addr[i]]

\* C15: the location list of a sample of an operator of the directory, of
\* address a, is the operator's id followed by the ids of the operators at
\* the proper prefixes of a, from the longest to the prefix of length 1;
\* an address of length 1 gives the list of the id alone.
C15_CallStack ==
    ~builder.panicked =>
        \A key \in DOMAIN builder.samples :
            key[1] \in DOMAIN builder.op_addrs_by_id =>
                LET a == builder.op_addrs_by_id[key[1]]
                    stack == builder.samples[key].location_id
                IN  /\ Len(stack) = Len(a)
                    /\ stack[1] = key[1]
                    /\ \A n \in 1..(Len(a) - 1) :
                          /\ OperatorsAt(Prefix(a, n)) # {}
                          /\ stack[Len(a) - n + 1] =
                                 Max(OperatorsAt(Prefix(a, n)))

\* The directory is {1@[0], 2@[0,0], 3@[0,0,0]}: a sample of operator 3
\* has the stack [3,2,1], one of operator 2 has [2,1] and one of operator 1
\* has [1].
C15_Witness ==
    /\ built # <<>>
    /\ DOMAIN builder.op_addrs_by_id = {1, 2, 3}
    /\ builder.op_addrs_by_id[1] = <<0>>
    /\ builder.op_addrs_by_id[2] = <<0, 0>>
    /\ builder.op_addrs_by_id[3] = <<0, 0, 0>>
    /\ \E u \in WorkerIds, v \in WorkerIds, w \in WorkerIds :
          /\ {<<1, u>>, <<2, v>>, <<3, w>>} \subseteq DOMAIN builder.samples
          /\ builder.samples[<<1, u>>].location_id = <<1>>
          /\ builder.samples[<<2, v>>].location_id = <<2, 1>>
          /\ builder.samples[<<3, w>>].location_id = <<3, 2, 1>>

\* The sample keys of the operators that are not in the directory.
UnknownKeys ==
    {key \in DOMAIN builder.samples :
        key[1] \notin DOMAIN builder.op_addrs_by_id}

\* C16: samples of an operator that is not in the directory do not make
\* the build fail (it fails only on an operator of the directory one of
\* whose ancestors is missing); the operator gets one function and one
\* location of its id, named "<unknown>", however many workers and columns
\* refer to it, and each of its keys one sample whose stack is the id.
C16_UnknownOperator ==
    /\ builder.panicked =>
          \E k \in DOMAIN columns : \E key \in DOMAIN columns[k] :
              /\ key[1] \in DOMAIN builder.op_addrs_by_id
              /\ \E n \in 1..(Len(builder.op_addrs_by_id[key[1]]) - 1) :
                    OperatorsAt(Prefix(builder.op_addrs_by_id[key[1]], n)) = {}
    /\ ~builder.panicked =>
          \A key \in UnknownKeys :
              /\ builder.samples[key].location_id = <<key[1]>>
              /\ key[1] \in DOMAIN builder.functions
              /\ key[1] \in DOMAIN builder.locations
              /\ builder.locations[key[1]].line = <<key[1]>>
              /\ built # <<>> =>
                    /\ Cardinality({i \in DOMAIN built[1].function :
                           built[1].function[i].id = key[1]}) = 1
                    /\ Cardinality({i \in DOMAIN built[1].location :
                           built[1].location[i].id = key[1]}) = 1
                    /\ \A i \in DOMAIN built[1].function :
                          built[1].function[i].id = key[1] =>
                              built[1].string_table[
                                  built[1].function[i].name + 1] = "<unknown>"
                    /\ Cardinality({i \in DOMAIN built[1].sample :
                           built[1].sample[i].location_id = <<key[1]>>})
                       = Cardinality({k \in UnknownKeys : k[1] = key[1]})

\* A Profile was built from an empty directory and two columns that both
\* give operator 2 on both workers: it has one function, one location and
\* two samples.
C16_Witness ==
    /\ built # <<>>
    /\ DOMAIN builder.op_addrs_by_id = {}
    /\ Len(columns) = 2
    /\ DOMAIN columns[1] = {<<2, 0>>, <<2, 1>>}
    /\ DOMAIN columns[2] = {<<2, 0>>, <<2, 1>>}
    /\ Len(built[1].function) = 1
    /\ Len(built[1].location) = 1
    /\ Len(built[1].sample) = 2


\* The ids of the entries of a table of the profile.
IdsOf(tbl) == {tbl[i].id : i \in DOMAIN tbl}

\* C23: referential integrity of the built profile.  The function table
\* and the location table hold the same ids, the single line of each
\* location references the function of the location's id, and every id in
\* the location list of a sample is the id of a location.
C23_ReferentialIntegrity ==
    built # <<>> =>
        LET prof == built[1]
        IN  /\ IdsOf(prof.function) = IdsOf(prof.location)
            /\ \A i \in DOMAIN prof.location :
                  /\ prof.location[i].line = <<prof.location[i].id>>
                  /\ prof.location[i].id \in IdsOf(prof.function)
            /\ \A i \in DOMAIN prof.sample :
                  \A k \in DOMAIN prof.sample[i].location_id :
                      prof.sample[i].location_id[k] \in IdsOf(prof.location)

\* A profile has been built that holds a sample with a stack of an
\* operator and an ancestor, a sample of an id that add_operator was never
\* given, and a sample of an operator below the root that was added only
\* after its sample.
C23_Witness ==
    /\ built # <<>>
    /\ \E i \in DOMAIN built[1].sample : Len(built[1].sample[i].location_id) >= 2
    /\ \E i \in DOMAIN built[1].sample :
          built[1].sample[i].location_id[1] \notin DOMAIN builder.op_addrs_by_id
    /\ \E i \in DOMAIN built[1].sample :
          LET stack == built[1].sample[i].location_id
          IN  /\ Len(stack) = 1
              /\ stack[1] \in DOMAIN builder.op_addrs_by_id
              /\ Len(builder.op_addrs_by_id[stack[1]]) >= 2
====
